---- MODULE Spec2Model ----
(***************************************************************************)
(* Model of src/class_attack.py: the four query-attack sweeps              *)
(* (attack_wb_rand_query_size, attack_bb_rand_query_size,                  *)
(* attack_wb_rand_feature_size, attack_bb_query_extra) and the driver main *)
(* that runs them and persists their report tables.                        *)
(*                                                                         *)
(* Numbers that Python holds as floats (scores, elapsed times) are exact   *)
(* rationals <<numerator, denominator>> in lowest terms; NaN is <<0, 0>>.  *)
(* A feature table (pandas DataFrame) is a record of its index, its column *)
(* labels and its row-major value matrix.  A report table is a record of   *)
(* its column names and its rows, a row being a function from column name  *)
(* to value.                                                               *)
(***************************************************************************)
EXTENDS Integers, Sequences, FiniteSets, TLC

\* ---------------------------------------------------------------- bounds
MaxRows == 2        \* rows of the sample table X (args.num_users, scaled down)
NumCols == 2        \* feature columns of X (561 in UCI_HAR, scaled down)
MaxElapsed == 2     \* elapsed times a timer can measure: 1..MaxElapsed
NumSeeds == 2       \* distinct draws of the random number generator
MaxRuns == 2        \* invocations of the script
FeatQuerySize == 10 \* query_size of the feature-count sweep (default 1000, scaled down)
FeatNumSamples == 2 \* num_samples of the feature-count sweep (default 10, scaled down)

\* ------------------------------------------------------- program constants
NumClasses == 6
QuerySizes == <<10, 20>>
ExtraFeats == <<1, 5>>
FeatCounts == <<1, NumCols>>
ExtraQuerySizes == <<10, 20>>
ModelTypes == {"rf", "lr", "dnn"}
DataNames == {"UCI_HAR", "OTHER"}
HardCodedDataName == "UCI_HAR"

FileQuery == "attack_rand_query.csv"
FileQueryBB == "attack_rand_query_bb.csv"
FileFeat == "attack_rand_feat.csv"
FileExtra == "attack_bb_unused_feat.csv"
FileNames == {FileQuery, FileQueryBB, FileFeat, FileExtra}
Paths == DataNames \X FileNames

\* ------------------------------------------------------------- rationals
RECURSIVE GCD(_, _)
GCD(a, b) == IF b = 0 THEN a ELSE GCD(b, a % b)

Rat(n, d) == LET g == GCD(n, d) IN <<n \div g, d \div g>>
NaN == <<0, 0>>
IsNaN(v) == v[2] = 0
RAdd(a, b) == Rat(a[1] * b[2] + b[1] * a[2], a[2] * b[2])
RSub(a, b) == Rat(a[1] * b[2] - b[1] * a[2], a[2] * b[2])
RMul(a, b) == Rat(a[1] * b[1], a[2] * b[2])
RDivN(a, k) == Rat(a[1], a[2] * k)

RECURSIVE RSum(_)
RSum(s) == IF s = <<>> THEN <<0, 1>> ELSE RAdd(Head(s), RSum(Tail(s)))

\* np.mean of a non-empty list
NpMean(s) == RDivN(RSum(s), Len(s))
\* np.std of a non-empty list, held as its square (the population variance)
NpStdSquared(s) ==
    RSub(NpMean([i \in 1..Len(s) |-> RMul(s[i], s[i])]), RMul(NpMean(s), NpMean(s)))

\* ------------------------------------------------------- feature tables
RECURSIVE Repeat(_, _)
Repeat(s, n) == IF n = 0 THEN <<>> ELSE s \o Repeat(s, n - 1)

Range(s) == {s[i] : i \in 1..Len(s)}
PosOf(s, x) == CHOOSE i \in 1..Len(s) : s[i] = x

\* the sample table of r rows: distinct row identities (random.sample without
\* replacement over the rows of X_test), integer column labels 0..NumCols-1
\* (read_csv with header=None), values in [-1, 1]
SampleTable(r) ==
    [index   |-> [i \in 1..r |-> 2 * i + 1],
     columns |-> [j \in 1..NumCols |-> j - 1],
     values  |-> [i \in 1..r |-> [j \in 1..NumCols |-> ((i + j) % 3) - 1]]]

NoTable == [index |-> <<>>, columns |-> <<>>, values |-> <<>>]

\* X.reindex(columns=cols, fill_value=fill)
Reindex(df, cols, fill) ==
    [index   |-> df.index,
     columns |-> cols,
     values  |-> [i \in 1..Len(df.index) |->
                    [j \in 1..Len(cols) |->
                        IF cols[j] \in Range(df.columns)
                        THEN df.values[i][PosOf(df.columns, cols[j])]
                        ELSE fill]]]

\* pd.concat([df]*n): the copies one after the other, each row keeping its index
PdConcatIgnoreIndex(df, n) ==
    [index   |-> [k \in 1..(n * Len(df.index)) |-> k - 1],
     columns |-> df.columns,
     values  |-> Repeat(df.values, n)]
PdConcat(df, n) ==
    [index   |-> Repeat(df.index, n),
     columns |-> df.columns,
     values  |-> Repeat(df.values, n)]

\* np.random.uniform(-1, 1, ...) shaped (nrows, ncols): one draw of the generator
RandMatrix(seed, nrows, ncols) ==
    [i \in 1..nrows |-> [j \in 1..ncols |-> ((seed + i + 2 * j) % 3) - 1]]

\* df[cols] = m : overwrite the columns cols (in that order) with the matrix m
AssignColumns(df, cols, m) ==
    [index   |-> df.index,
     columns |-> df.columns,
     values  |-> [i \in 1..Len(df.index) |->
                    [j \in 1..Len(df.columns) |->
                        IF df.columns[j] \in Range(cols)
                        THEN m[i][PosOf(cols, df.columns[j])]
                        ELSE df.values[i][j]]]]

\* df[cols]
SelectColumns(df, cols) ==
    [index   |-> df.index,
     columns |-> cols,
     values  |-> [i \in 1..Len(df.index) |->
                    [j \in 1..Len(cols) |-> df.values[i][PosOf(df.columns, cols[j])]]]]

\* X_cols + list(range(X_cols[-1]+1, X_cols[-1]+num_extra_feat+1))
AugmentColumns(X_cols, num_extra_feat) ==
    X_cols \o [k \in 1..num_extra_feat |-> X_cols[Len(X_cols)] + k]

\* random.sample(cols, k): k distinct columns in the order drawn, one draw of
\* the generator (k <= Len(cols))
RandomSample(cols, k, draw) ==
    [t \in 1..k |-> cols[((draw + t - 1) % Len(cols)) + 1]]

\* ------------------------------------------------------------ predictor
\* The table handed to the predictor: the dnn branch passes X_augment.values
\* (every column), the sklearn branch passes the table restricted to cols.
PredictorInput(mt, df, cols) ==
    IF mt = "dnn" THEN df ELSE SelectColumns(df, cols)

\* the model was fitted on the columns of X; any other shape is an error
Accepts(input, X_cols) == input.columns = X_cols

\* label sequences the loaded model can return for a batch whose identities
\* are idx: a constant label, the row position mod 6, or, per identity group,
\* either one label or as many distinct labels as the group and the classes allow
Min(a, b) == IF a <= b THEN a ELSE b
GroupSize(idx, g) == Cardinality({k \in 1..Len(idx) : idx[k] = g})
GroupRank(idx, i) == Cardinality({k \in 1..i : idx[k] = idx[i]})
PredictorOutputs(m, idx) ==
    CASE m.kind = "const"  -> {[i \in 1..Len(idx) |-> m.label]}
      [] m.kind = "rowmod" -> {[i \in 1..Len(idx) |-> (i - 1) % NumClasses]}
      [] m.kind = "free"   ->
            LET rank == [i \in 1..Len(idx) |-> GroupRank(idx, i)]
                most == [g \in Range(idx) |-> Min(GroupSize(idx, g), NumClasses)]
            IN {[i \in 1..Len(idx) |-> IF idx[i] \in many THEN (rank[i] - 1) % most[idx[i]] ELSE 0] :
                    many \in SUBSET Range(idx)}

\* ---------------------------------------------------- consistency score
\* df_pred['pred'].groupby(index).nunique(): distinct labels of one group
NUniqueCount(idx, pred, g) == Cardinality({i \in 1..Len(idx) : idx[i] = g})
NUnique(idx, pred, g) == Cardinality({pred[i] : i \in {k \in 1..Len(idx) : idx[k] = g}})

RECURSIVE SumOver(_, _, _, _)
SumOver(idx, pred, gs, acc) ==
    IF gs = {} THEN acc
    ELSE LET g == CHOOSE x \in gs : TRUE
         IN SumOver(idx, pred, gs \ {g}, acc + NUnique(idx, pred, g))

\* .mean() over the groups
MeanNUniqueSum(idx, pred) == Rat(SumOver(idx, pred, Range(idx), 0), 1)
MeanNUnique(idx, pred) == Rat(SumOver(idx, pred, Range(idx), 0), Cardinality(Range(idx)))

\* mean / 6 * 100
NormalizeNoDiv(mean) == RMul(mean, <<100, 1>>)
Normalize(mean) == RMul(RDivN(mean, NumClasses), <<100, 1>>)

ConsistencyScore(idx, pred) == Normalize(MeanNUnique(idx, pred))

\* -------------------------------------------------------- report tables
NewFrame(cols) == [columns |-> cols, rows |-> <<>>]

Keys(row) == [i \in 1..Len(row) |-> row[i][1]]
ValueOf(row, k) == row[PosOf(Keys(row), k)][2]

\* columns of a ++ the columns of b that a lacks, in b's order
UnionColumns(a, b) == a \o SelectSeq(b, LAMBDA c : c \notin Range(a))

Widen(r, oldcols, cols) ==
    [c \in Range(cols) |-> IF c \in Range(oldcols) THEN r[c] ELSE NaN]

\* df.append(row, ignore_index=True), row a dict given as <<key, value>> pairs
DfAppendRow(df, row) ==
    LET cols == UnionColumns(df.columns, Keys(row))
        new  == [c \in Range(cols) |-> IF c \in Range(Keys(row)) THEN ValueOf(row, c) ELSE NaN]
    IN [columns |-> cols,
        rows    |-> [i \in 1..Len(df.rows) |-> Widen(df.rows[i], df.columns, cols)] \o <<new>>]

\* df.append(other, ignore_index=True), other a report table
DfAppendFrame(df, other) ==
    LET cols == UnionColumns(df.columns, other.columns)
    IN [columns |-> cols,
        rows    |-> [i \in 1..Len(df.rows) |-> Widen(df.rows[i], df.columns, cols)]
                    \o [i \in 1..Len(other.rows) |-> Widen(other.rows[i], other.columns, cols)]]

\* --------------------------------------------------------------- files
NoFile == [exists |-> FALSE, header |-> <<>>, lines |-> <<>>]

\* a NaN cell is written as the empty text
FormatField(c, v) == IF c = "model_type" THEN v ELSE IF IsNaN(v) THEN <<>> ELSE v
ParseField(c, t) == IF c = "model_type" THEN t ELSE IF t = <<>> THEN NaN ELSE t

\* df.to_csv(path, index=False): the header line, then one line per row
ToCsv(df) ==
    [exists |-> TRUE,
     header |-> df.columns,
     lines  |-> [i \in 1..Len(df.rows) |->
                    [k \in 1..Len(df.columns) |->
                        FormatField(df.columns[k], df.rows[i][df.columns[k]])]]]

\* pd.read_csv(path)
ReadCsv(f) ==
    [columns |-> f.header,
     rows    |-> [i \in 1..Len(f.lines) |->
                    [c \in Range(f.header) |->
                        ParseField(c, f.lines[i][PosOf(f.header, c)])]]]


\* ---------------------------------------------------------------- state
VARIABLES
    data_name,      \* args.data_name
    model_type,     \* args.model_type
    num_users,      \* args.num_users
    model,          \* the loaded predictor
    X,              \* the sample table handed to the sweeps
    models,         \* environment: the predictors that can be loaded
    durations,      \* environment: the elapsed times the timer can measure
    seeds,          \* environment: the draws the random number generator can make
    fs,             \* the report files under ./results/<data_name>/
    caller,         \* "main", or "direct" when a sweep is called on its own
    fn,             \* the sweep being executed
    pc,             \* position inside it: base, loop, ret; idle, done, crashed
    i, j,           \* outer and inner loop positions
    query_size,     \* query_size of the configuration last run
    report,         \* attack_results_random / df_out of the running sweep
    end_time,       \* end_time
    X_augment,      \* X_augment
    result_attack,  \* results_baseline / result_attack
    attack_acc,     \* attack_acc
    results_across_samples,
    handed,         \* history: columns of the last table handed to the predictor
    measured,       \* history: the elapsed time measured for each configuration
    scored,         \* history: the score computed for each configuration
    written,        \* history: the paths written by the current run
    runs,           \* history: invocations started
    thisRun,        \* history: the reports main persisted in the current run
    completed,      \* history: the persisted reports of every completed run
    crashedAt       \* history: <<fn, pc>> at the moment of a crash

vars == <<data_name, model_type, num_users, model, X, models, durations, seeds, fs, caller, fn, pc,
          i, j, query_size,
          report, end_time, X_augment, result_attack, attack_acc,
          results_across_samples, handed, measured, scored, written, runs,
          thisRun, completed, crashedAt>>

args == <<data_name, model_type, num_users, model, X, models, durations, seeds, caller>>
mainHist == <<runs, thisRun, completed>>

AllPredictors ==
    {[kind |-> "const", label |-> NumClasses - 1],
     [kind |-> "rowmod", label |-> 0], [kind |-> "free", label |-> 0]}
DeterministicPredictors == {m \in AllPredictors : m.kind # "free"}
ConstantPredictors == {m \in AllPredictors : m.kind = "const"}

WbqColumns == <<"model_type", "query_size", "accuracy", "runtime">>
BbqColumns == <<"model_type", "num_extra_features", "query_size", "pred_recovered", "runtime">>
FeatColumns == <<"model_type", "num_features", "accuracy_mean", "accuracy_std", "runtime">>
ExtraColumns == <<"model_type", "num_extra_features", "query_size", "accuracy", "runtime">>

FirstColumns(f) ==
    CASE f = "wbq" -> WbqColumns [] f = "bbq" -> BbqColumns
      [] f = "feat" -> FeatColumns [] f = "extra" -> ExtraColumns

Num(n) == <<n, 1>>

WbqRow(mt, qs, acc, rt) ==
    << <<"model_type", mt>>, <<"query_size", Num(qs)>>, <<"accuracy", acc>>, <<"runtime", rt>> >>
BbRow(mt, ne, qs, acc, rt) ==
    << <<"model_type", mt>>, <<"num_extra_features", Num(ne)>>, <<"query_size", Num(qs)>>,
       <<"pred_recovered", acc>>, <<"runtime", rt>> >>
FeatRow(mt, nf, mean, std, rt) ==
    << <<"model_type", mt>>, <<"num_features", Num(nf)>>, <<"accuracy_mean", mean>>,
       <<"accuracy_std", std>>, <<"runtime", rt>> >>

\* the value of end_time when the row of a query size is appended (line 49):
\* end_time is reassigned only after the append (line 52)
WbqRowRuntimeCurrent(prev_end_time, elapsed) == elapsed
WbqRowRuntime(prev_end_time, elapsed) == prev_end_time

\* line 93 sits in the body of the outer loop, after the inner loop
BbqFlushAfterSweep(oi, ii) == oi = Len(ExtraFeats) /\ ii = Len(QuerySizes)
BbqFlushDue(oi, ii) == ii = Len(QuerySizes)

\* main, lines 215-220 and 233-238: read-append-write when the file exists
MainPersistOverwrite(fsv, path, results) == [fsv EXCEPT ![path] = ToCsv(results)]
MainPersist(fsv, path, results) ==
    IF fsv[path].exists
    THEN [fsv EXCEPT ![path] = ToCsv(DfAppendFrame(ReadCsv(fsv[path]), results))]
    ELSE [fsv EXCEPT ![path] = ToCsv(results)]

\* the path the black-box sweeps write: .format('UCI_HAR')
BbPath(name) == <<HardCodedDataName, name>>

Running == pc \in {"base", "loop", "ret"} /\ ~(caller = "direct" /\ pc = "ret")

\* the predictor raised on its input: the process terminates
Raise(cols) ==
    /\ handed' = cols
    /\ pc' = "crashed"
    /\ crashedAt' = <<fn, pc>>
    /\ UNCHANGED <<args, fs, fn, i, j, query_size, report, end_time, X_augment, result_attack,
                   attack_acc, results_across_samples, measured, scored, written, mainHist>>

\* ------------------------------------------------------------- actions
\* lines 22-31 and 104-113: the baseline of the two white-box sweeps
Baseline ==
    /\ pc = "base"
    /\ fn \in {"wbq", "feat"}
    /\ LET input == PredictorInput(model_type, X, X.columns) IN
       \E pred \in PredictorOutputs(model, X.index), d \in durations :
          LET acc == ConsistencyScore(X.index, pred)
              row == IF fn = "wbq" THEN WbqRow(model_type, 1, acc, Num(d))
                     ELSE FeatRow(model_type, 0, acc, Num(0), Num(d))
          IN /\ handed' = input.columns
             /\ result_attack' = pred
             /\ attack_acc' = acc
             /\ end_time' = Num(d)
             /\ report' = DfAppendRow(report, row)
             /\ measured' = <<Num(d)>>
             /\ scored' = <<acc>>
             /\ pc' = "loop"
             /\ i' = 1
             /\ j' = 1
             /\ query_size' = 1
    /\ UNCHANGED <<args, fs, fn, X_augment, results_across_samples, written, mainHist, crashedAt>>

\* lines 34-53: one query size of attack_wb_rand_query_size
WbqIter ==
    /\ fn = "wbq" /\ pc = "loop"
    /\ LET n == QuerySizes[i] IN
       \E seed \in seeds, d \in durations :
          LET rep == PdConcat(X, n)
              aug == AssignColumns(rep, rep.columns,
                                   RandMatrix(seed, Len(rep.index), Len(rep.columns)))
              input == PredictorInput(model_type, aug, aug.columns)
          IN \E pred \in PredictorOutputs(model, aug.index) :
             LET acc == ConsistencyScore(aug.index, pred) IN
             /\ X_augment' = aug
             /\ query_size' = n
             /\ handed' = input.columns
             /\ result_attack' = pred
             /\ attack_acc' = acc
             /\ report' = DfAppendRow(report,
                              WbqRow(model_type, n, acc, WbqRowRuntime(end_time, Num(d))))
             /\ end_time' = Num(d)
             /\ measured' = Append(measured, Num(d))
             /\ scored' = Append(scored, acc)
             /\ i' = i + 1
             /\ pc' = IF i = Len(QuerySizes) THEN "ret" ELSE "loop"
    /\ UNCHANGED <<args, fs, fn, j, results_across_samples, written, mainHist, crashedAt>>

\* the body shared by the two black-box sweeps (lines 66-91 and 155-178)
BbConfig(ne, n, seed) ==
    LET X_cols == X.columns
        ext == Reindex(X, AugmentColumns(X_cols, ne), 0)
        rep == PdConcat(ext, n)
    IN AssignColumns(rep, rep.columns, RandMatrix(seed, Len(rep.index), Len(rep.columns)))

\* lines 64-93: one (num_extra_feat, query_size) of attack_bb_rand_query_size
BbqIter ==
    /\ fn = "bbq" /\ pc = "loop"
    /\ \E seed \in seeds :
       LET aug == BbConfig(ExtraFeats[i], QuerySizes[j], seed)
           input == PredictorInput(model_type, aug, X.columns)
       IN IF ~Accepts(input, X.columns) THEN Raise(input.columns)
          ELSE \E pred \in PredictorOutputs(model, aug.index), d \in durations :
             LET acc == ConsistencyScore(aug.index, pred)
                 out == DfAppendRow(report,
                            BbRow(model_type, ExtraFeats[i], QuerySizes[j], acc, Num(d)))
                 flush == BbqFlushDue(i, j)
             IN /\ X_augment' = aug
                /\ query_size' = QuerySizes[j]
                /\ handed' = input.columns
                /\ result_attack' = pred
                /\ attack_acc' = acc
                /\ end_time' = Num(d)
                /\ report' = out
                /\ measured' = Append(measured, Num(d))
                /\ scored' = Append(scored, acc)
                /\ fs' = IF flush THEN [fs EXCEPT ![BbPath(FileQueryBB)] = ToCsv(out)] ELSE fs
                /\ written' = IF flush THEN written \cup {BbPath(FileQueryBB)} ELSE written
                /\ j' = IF j = Len(QuerySizes) THEN 1 ELSE j + 1
                /\ i' = IF j = Len(QuerySizes) THEN i + 1 ELSE i
                /\ pc' = IF j = Len(QuerySizes) /\ i = Len(ExtraFeats) THEN "ret" ELSE "loop"
                /\ UNCHANGED <<args, fn, results_across_samples, mainHist, crashedAt>>

\* lines 153-180: one (num_extra_feat, query_size) of attack_bb_query_extra
ExtraIter ==
    /\ fn = "extra" /\ pc = "loop"
    /\ \E seed \in seeds :
       LET aug == BbConfig(ExtraFeats[i], ExtraQuerySizes[j], seed)
           input == PredictorInput(model_type, aug, X.columns)
       IN IF ~Accepts(input, X.columns) THEN Raise(input.columns)
          ELSE \E pred \in PredictorOutputs(model, aug.index), d \in durations :
             LET acc == ConsistencyScore(aug.index, pred)
                 out == DfAppendRow(report,
                            BbRow(model_type, ExtraFeats[i], ExtraQuerySizes[j], acc, Num(d)))
             IN /\ X_augment' = aug
                /\ query_size' = ExtraQuerySizes[j]
                /\ handed' = input.columns
                /\ result_attack' = pred
                /\ attack_acc' = acc
                /\ end_time' = Num(d)
                /\ report' = out
                /\ measured' = Append(measured, Num(d))
                /\ scored' = Append(scored, acc)
                /\ fs' = [fs EXCEPT ![BbPath(FileExtra)] = ToCsv(out)]
                /\ written' = written \cup {BbPath(FileExtra)}
                /\ j' = IF j = Len(ExtraQuerySizes) THEN 1 ELSE j + 1
                /\ i' = IF j = Len(ExtraQuerySizes) THEN i + 1 ELSE i
                /\ pc' = IF j = Len(ExtraQuerySizes) /\ i = Len(ExtraFeats) THEN "ret" ELSE "loop"
                /\ UNCHANGED <<args, fn, results_across_samples, mainHist, crashedAt>>

\* lines 116-142: one trial of one feature count of attack_wb_rand_feature_size;
\* the last trial of a feature count also appends its row
FeatTrial ==
    /\ fn = "feat" /\ pc = "loop"
    /\ LET num_features == FeatCounts[i]
           last == j = FeatNumSamples
       IN
       \E draw \in seeds, seed \in seeds, d \in IF last THEN durations ELSE {0} :
          LET random_cols == RandomSample(X.columns, num_features, draw)
              rep == PdConcat(X, FeatQuerySize)
              aug == AssignColumns(rep, random_cols,
                                   RandMatrix(seed, Len(rep.index), num_features))
              input == PredictorInput(model_type, aug, aug.columns)
          IN \E pred \in PredictorOutputs(model, aug.index) :
             LET acc == ConsistencyScore(aug.index, pred)
                 res == Append(IF j = 1 THEN <<>> ELSE results_across_samples, acc)
             IN /\ X_augment' = aug
                /\ query_size' = FeatQuerySize
                /\ handed' = input.columns
                /\ result_attack' = pred
                /\ attack_acc' = acc
                /\ results_across_samples' = res
                /\ IF last
                   THEN /\ end_time' = Num(d)
                        /\ report' = DfAppendRow(report,
                                        FeatRow(model_type, num_features, NpMean(res),
                                                NpStdSquared(res), Num(d)))
                        /\ measured' = Append(measured, Num(d))
                        /\ scored' = Append(scored, NpMean(res))
                        /\ i' = i + 1
                        /\ j' = 1
                        /\ pc' = IF i = Len(FeatCounts) THEN "ret" ELSE "loop"
                   ELSE /\ j' = j + 1
                        /\ UNCHANGED <<end_time, report, measured, scored, i, pc>>
    /\ UNCHANGED <<args, fs, fn, written, mainHist, crashedAt>>

\* an unhandled error or a kill between two steps terminates the process: its
\* memory is gone; report, i and j stay as the record of what it had completed
Crash ==
    /\ Running
    /\ pc' = "crashed"
    /\ crashedAt' = <<fn, pc>>
    /\ end_time' = NaN
    /\ X_augment' = NoTable
    /\ result_attack' = <<>>
    /\ attack_acc' = NaN
    /\ results_across_samples' = <<>>
    /\ query_size' = 0
    /\ UNCHANGED <<args, fs, fn, i, j, report, handed, measured, scored, written, mainHist>>

\* the state of a sweep on entry
EnterSweep(f) ==
    /\ fn' = f
    /\ pc' = IF f \in {"wbq", "feat"} THEN "base" ELSE "loop"
    /\ i' = 1
    /\ j' = 1
    /\ query_size' = 0
    /\ report' = NewFrame(FirstColumns(f))
    /\ end_time' = NaN
    /\ X_augment' = NoTable
    /\ result_attack' = <<>>
    /\ attack_acc' = NaN
    /\ results_across_samples' = <<>>
    /\ handed' = <<>>
    /\ measured' = <<>>
    /\ scored' = <<>>

\* lines 186-214: parse the flags, load the data and the model, call the first sweep
MainStart ==
    /\ caller = "main"
    /\ pc \in {"idle", "done", "crashed"}
    /\ runs < MaxRuns
    /\ \E dn \in DataNames, mt \in ModelTypes, m \in models :
          /\ data_name' = dn
          /\ model_type' = mt
          /\ model' = m
          /\ X' = SampleTable(num_users)
    /\ EnterSweep("wbq")
    /\ runs' = runs + 1
    /\ written' = {}
    /\ thisRun' = [query |-> <<>>, feat |-> <<>>]
    /\ crashedAt' = <<"none", "idle">>
    /\ UNCHANGED <<num_users, models, durations, seeds, fs, caller, completed>>

\* lines 214-223: persist the white-box query-size report, call the black-box sweep
MainPersistQuery ==
    /\ caller = "main" /\ fn = "wbq" /\ pc = "ret"
    /\ fs' = MainPersist(fs, <<data_name, FileQuery>>, report)
    /\ written' = written \cup {<<data_name, FileQuery>>}
    /\ thisRun' = [thisRun EXCEPT !.query = ToCsv(report).lines]
    /\ EnterSweep("bbq")
    /\ UNCHANGED <<args, runs, completed, crashedAt>>

\* lines 223-232: the black-box report is not persisted by main
MainCallFeat ==
    /\ caller = "main" /\ fn = "bbq" /\ pc = "ret"
    /\ EnterSweep("feat")
    /\ UNCHANGED <<args, fs, written, mainHist, crashedAt>>

\* lines 232-241: persist the feature-count report, call the last sweep
MainPersistFeat ==
    /\ caller = "main" /\ fn = "feat" /\ pc = "ret"
    /\ fs' = MainPersist(fs, <<data_name, FileFeat>>, report)
    /\ written' = written \cup {<<data_name, FileFeat>>}
    /\ thisRun' = [thisRun EXCEPT !.feat = ToCsv(report).lines]
    /\ EnterSweep("extra")
    /\ UNCHANGED <<args, runs, completed, crashedAt>>

\* line 241: the last sweep returns and main ends
MainFinish ==
    /\ caller = "main" /\ fn = "extra" /\ pc = "ret"
    /\ pc' = "done"
    /\ completed' = Append(completed, [dir |-> data_name, query |-> thisRun.query,
                                       feat |-> thisRun.feat])
    /\ UNCHANGED <<args, fs, fn, i, j, query_size, report, end_time, X_augment, result_attack,
                   attack_acc, results_across_samples, handed, measured, scored,
                   written, runs, thisRun, crashedAt>>

\* ------------------------------------------------------- specifications
NoFiles == [p \in Paths |-> NoFile]

\* a report left by an earlier run of the black-box query-size sweep
StaleReport ==
    ToCsv(DfAppendRow(NewFrame(BbqColumns), BbRow("lr", 1, 10, <<50, 3>>, Num(1))))

InitCommon ==
    /\ end_time = NaN
    /\ X_augment = NoTable
    /\ result_attack = <<>>
    /\ attack_acc = NaN
    /\ results_across_samples = <<>>
    /\ handed = <<>>
    /\ measured = <<>>
    /\ scored = <<>>
    /\ written = {}
    /\ thisRun = [query |-> <<>>, feat |-> <<>>]
    /\ completed = <<>>
    /\ crashedAt = <<"none", "idle">>
    /\ i = 1
    /\ j = 1
    /\ query_size = 0

\* a sweep called on its own, in one of three environments: a deterministic
\* predictor under any timer, a predictor free in its labels, or a constant
\* predictor under any draw of the random number generator
Init ==
    /\ InitCommon
    /\ caller = "direct"
    /\ data_name = HardCodedDataName
    /\ model_type \in ModelTypes
    /\ models = AllPredictors
    /\ model \in models
    /\ \/ model \in DeterministicPredictors /\ durations = 1..MaxElapsed /\ seeds = {0}
       \/ model.kind = "free" /\ durations = {1} /\ seeds = {0}
       \/ model \in ConstantPredictors /\ durations = {1} /\ seeds = 0..(NumSeeds - 1)
    /\ num_users \in 1..MaxRows
    /\ X = SampleTable(num_users)
    /\ fn \in {"wbq", "bbq", "feat", "extra"}
    /\ fs \in {NoFiles} \cup (IF fn = "bbq"
                             THEN {[NoFiles EXCEPT ![BbPath(FileQueryBB)] = StaleReport]}
                             ELSE {})
    /\ pc = IF fn \in {"wbq", "feat"} THEN "base" ELSE "loop"
    /\ report = NewFrame(FirstColumns(fn))
    /\ runs = 1

Next == Baseline \/ WbqIter \/ BbqIter \/ FeatTrial \/ ExtraIter \/ Crash

Spec == Init /\ [][Next]_vars

\* the script, run MaxRuns times over the same results directory
InitMain ==
    /\ InitCommon
    /\ caller = "main"
    /\ data_name = HardCodedDataName
    /\ model_type = "rf"
    /\ models = ConstantPredictors
    /\ model \in models
    /\ durations = {1}
    /\ seeds = {0}
    /\ num_users = MaxRows
    /\ X = NoTable
    /\ fs = NoFiles
    /\ fn = "none"
    /\ pc = "idle"
    /\ report = NewFrame(<<>>)
    /\ runs = 0

NextMain ==
    \/ MainStart \/ MainPersistQuery \/ MainCallFeat \/ MainPersistFeat \/ MainFinish
    \/ Baseline \/ WbqIter \/ BbqIter \/ FeatTrial \/ ExtraIter \/ Crash

SpecMain == InitMain /\ [][NextMain]_vars

\* -------------------------------------------------------------- claims
ScoreColumn == CASE fn = "wbq" -> "accuracy" [] fn = "feat" -> "accuracy_mean"
                 [] OTHER -> "pred_recovered"
Predicted == result_attack # <<>>
\* the identities of the batch the last prediction was made for
PredIndex == IF X_augment = NoTable THEN X.index ELSE X_augment.index
AllGroupsSingle ==
    \A g \in Range(PredIndex) :
        Cardinality({result_attack[k] : k \in {m \in 1..Len(PredIndex) : PredIndex[m] = g}}) = 1
\* the score recorded for the configuration of the last prediction
RecordedScore ==
    IF fn = "feat" /\ results_across_samples # <<>>
    THEN results_across_samples[Len(results_across_samples)]
    ELSE report.rows[Len(report.rows)][ScoreColumn]
InRange(v) == v[2] > 0 /\ 0 <= v[1] /\ v[1] <= 100 * v[2]

\* C1: in the black-box sweeps the table handed to the predictor has exactly
\* the columns of the sample table, for every predictor variant.
C1_OnlyOriginalColumns ==
    (fn \in {"bbq", "extra"} /\ handed # <<>>) => handed = X.columns

\* C2 as stated: when every identity group of the predicted batch holds one
\* distinct label, the recorded consistency score is exactly 0.
C2_ScoreZero ==
    (Predicted /\ AllGroupsSingle) => (attack_acc = <<0, 1>> /\ RecordedScore = <<0, 1>>)

\* C2 amended: when every identity group of the predicted batch holds one
\* distinct label, the recorded consistency score is exactly 100/6.
C2_ScoreOneSixth ==
    (Predicted /\ AllGroupsSingle) =>
        (attack_acc = Rat(100, NumClasses) /\ RecordedScore = Rat(100, NumClasses))

C2_Witness ==
    /\ fn = "wbq" /\ model.kind = "const" /\ num_users = MaxRows
    /\ query_size = QuerySizes[Len(QuerySizes)]
    /\ Predicted /\ AllGroupsSingle
    /\ Len(report.rows) = 1 + Len(QuerySizes)

BaselineScore == report.rows[1][ScoreColumn]
BaselineDone == fn \in {"wbq", "feat"} /\ Len(report.rows) >= 1

\* C3 as stated: with a predictor labelling each row by its position mod 6,
\* the baseline row of the white-box sweeps has a consistency score of 100.
C3_BaselineHundred ==
    (model.kind = "rowmod" /\ BaselineDone) => BaselineScore = <<100, 1>>

\* C3 amended: with that predictor the baseline score of the white-box sweeps
\* is 100/6, every one-row identity group holding one distinct label.
C3_BaselineOneSixth ==
    (model.kind = "rowmod" /\ BaselineDone) => BaselineScore = Rat(100, NumClasses)

C3_Witness ==
    /\ model.kind = "rowmod" /\ BaselineDone /\ pc = "loop" /\ Len(report.rows) = 1
    /\ num_users >= 2
    /\ result_attack[1] # result_attack[2]

\* C4: every consistency score written to a report row, and the score just
\* computed, lies in [0, 100].
C4_ScoreBounded ==
    /\ \A k \in 1..Len(report.rows) : InRange(report.rows[k][ScoreColumn])
    /\ Predicted => InRange(attack_acc)

C4_Witness ==
    /\ Len(report.rows) >= 2
    /\ report.rows[Len(report.rows)][ScoreColumn] = <<100, 1>>
    /\ num_users = MaxRows

\* C5: a replicated batch of query size n over r source rows has n*r rows,
\* one identity group per source row, each of n rows, every row in exactly
\* one group, and the random overwrite leaves every row's identity in place.
C5_ReplicationGroups ==
    X_augment # NoTable =>
        /\ Len(X_augment.index) = query_size * Len(X.index)
        /\ Range(X_augment.index) = Range(X.index)
        /\ \A g \in Range(X.index) : GroupSize(X_augment.index, g) = query_size
        /\ \A k \in 1..Len(X_augment.index) :
              X_augment.index[k] = X.index[((k - 1) % Len(X.index)) + 1]

C5_Witness ==
    /\ fn = "wbq" /\ X_augment # NoTable
    /\ query_size = QuerySizes[Len(QuerySizes)]
    /\ num_users = MaxRows
    /\ \E k \in 1..Len(X_augment.index) :
          X_augment.values[k] # X.values[((k - 1) % Len(X.index)) + 1]

RECURSIVE IsSubsequence(_, _)
IsSubsequence(s, t) ==
    IF s = <<>> THEN TRUE
    ELSE IF t = <<>> THEN FALSE
    ELSE IF Head(s) = Head(t) THEN IsSubsequence(Tail(s), Tail(t))
    ELSE IsSubsequence(s, Tail(t))

RECURSIVE CompletedLines(_, _, _)
CompletedLines(done, d, f) ==
    IF done = <<>> THEN <<>>
    ELSE (IF Head(done).dir = d
          THEN (IF f = FileQuery THEN Head(done).query ELSE Head(done).feat)
          ELSE <<>>) \o CompletedLines(Tail(done), d, f)

AppendedFiles == {FileQuery, FileFeat}
IsPrefix(s, t) == Len(s) <= Len(t) /\ SubSeq(t, 1, Len(s)) = s

\* C6: the white-box query-size report and the feature-count report are
\* appended to: every step keeps the lines on disk as a prefix of the new
\* content, and the files hold the rows of every completed run in run order.
C6_ReportsAppended ==
    /\ [][\A d \in DataNames, f \in AppendedFiles :
            IsPrefix(fs[<<d, f>>].lines, fs'[<<d, f>>].lines)]_vars
    /\ [](\A d \in DataNames, f \in AppendedFiles :
            IsSubsequence(CompletedLines(completed, d, f), fs[<<d, f>>].lines))

C6_Witness ==
    /\ Len(completed) = 2
    /\ completed[1].dir = completed[2].dir
    /\ completed[1].query # completed[2].query
    /\ fs[<<completed[1].dir, FileQuery>>].lines = completed[1].query \o completed[2].query
    /\ fs[<<completed[1].dir, FileFeat>>].lines = completed[1].feat \o completed[2].feat

\* C7: every report file written during a run lies under the results
\* directory of the run's -data_name.
C7_WrittenUnderDataName ==
    \A p \in written : p[1] = data_name

GroupsDone == i - 1
GroupLines(k) == SubSeq(ToCsv(report).lines, 1, k * Len(QuerySizes))

C9_RuntimeOfPreviousIteration ==
    (fn = "wbq" /\ Len(report.rows) >= 1) =>
        /\ Len(measured) = Len(report.rows)
        /\ report.rows[1]["runtime"] = measured[1]
        /\ \A k \in 2..Len(report.rows) : report.rows[k]["runtime"] = measured[k - 1]

C9_Witness ==
    /\ fn = "wbq" /\ pc = "ret"
    /\ \A k \in 1..Len(report.rows) : report.rows[k]["runtime"] # measured[Len(measured)]

\* C10: the row of every configuration holds the score and the elapsed time
\* of that configuration alone.
C10_RowsIndependent ==
    \A k \in 1..Len(report.rows) :
        /\ k <= Len(measured)
        /\ report.rows[k]["runtime"] = measured[k]
        /\ report.rows[k][ScoreColumn] = scored[k]
====
